---- MODULE Spec2Model ----
(***************************************************************************)
(* A model of the json-decode combinator library (src/src/decoders.rs,     *)
(* src/src/lib.rs).  A decoder is a tree; decoding is the recursive        *)
(* operator Decode, which returns the Result of the call together with the *)
(* log of every decode / func invocation it made, in order.                *)
(***************************************************************************)
EXTENDS Integers, Sequences, FiniteSets

VARIABLES op, dec, val, out, log,        \* one decode call: what, on what, result
          tree, heap, tpc, targ, tidx, tout, accs   \* concurrent callers

vars == <<op, dec, val, out, log, tree, heap, tpc, targ, tidx, tout, accs>>
callVars == <<op, dec, val, out, log>>
threadVars == <<tree, heap, tpc, targ, tidx, tout, accs>>

-----------------------------------------------------------------------------
(* Bounds of the model.                                                    *)

MaxLen == 2
MaxArity == 3
NThreads == 2

-----------------------------------------------------------------------------
(* serde_json::Value, the input tree.                                      *)

Null == [tag |-> "Null"]
Bool(b) == [tag |-> "Bool", b |-> b]
Str(s) == [tag |-> "String", s |-> s]
Arr(items) == [tag |-> "Array", items |-> items]
Obj(map) == [tag |-> "Object", map |-> map]

\* serde_json's Number: PosInt(u64) | NegInt(i64) | Float(f64).  An integer is
\* the pair (big, x) standing for x + (IF big THEN 2^63 ELSE 0); a float is
\* sign, whole part and one fractional digit.
PosInt(x) == [tag |-> "Number", n |-> [kind |-> "PosInt", big |-> FALSE, x |-> x]]
NegInt(x) == [tag |-> "Number", n |-> [kind |-> "NegInt", big |-> FALSE, x |-> x]]
TwoTo63 == [tag |-> "Number", n |-> [kind |-> "PosInt", big |-> TRUE, x |-> 0]]
Float(neg, whole, frac) ==
    [tag |-> "Number", n |-> [kind |-> "Float", neg |-> neg, whole |-> whole, frac |-> frac]]

Numbers == {PosInt(0), PosInt(1), PosInt(127), PosInt(128), PosInt(255), PosInt(256),
            PosInt(512), PosInt(10000), NegInt(-1), NegInt(-128), NegInt(-129),
            TwoTo63, Float(FALSE, 1, 0), Float(FALSE, 1, 5), Float(TRUE, 2, 5)}
Strings == {"ok", "fail", "hello"}
Leaves == {Null, Bool(TRUE), Bool(FALSE)} \cup Numbers \cup {Str(s) : s \in Strings}

ElemValues == {Null, Str("hello"), Str("ok"), PosInt(5)}
Arrays == {Arr(s) : s \in UNION {[1..n -> ElemValues] : n \in 0..MaxLen}}

Keys == {"a", "b"}
KeyOrder == <<"a", "b">>
FieldValues == ElemValues \cup {Bool(TRUE), Arr(<<Str("ok"), PosInt(5)>>)}
Objects == {Obj(m) : m \in UNION {[K -> FieldValues] : K \in SUBSET Keys}}

\* Inputs of the primitive decoders, of the structural combinators, and of
\* the decoders combined by map (which route through Objects).
StructLeaves == {Null, Bool(TRUE), PosInt(5), PosInt(512), Float(FALSE, 1, 5),
                 Str("ok"), Str("fail"), Str("hello")}
PrimValues == Leaves \cup Arrays \cup Objects
Values == StructLeaves \cup Arrays \cup Objects
MapValues == StructLeaves \cup Objects \cup {Arr(<<>>), Arr(<<Str("ok"), PosInt(5)>>)}

-----------------------------------------------------------------------------
(* Value::to_string(): compact JSON text.                                  *)

Digit(d) ==
    CASE d = 0 -> "0" [] d = 1 -> "1" [] d = 2 -> "2" [] d = 3 -> "3" [] d = 4 -> "4"
      [] d = 5 -> "5" [] d = 6 -> "6" [] d = 7 -> "7" [] d = 8 -> "8" [] d = 9 -> "9"

RECURSIVE NatText(_)
NatText(n) == IF n < 10 THEN Digit(n) ELSE NatText(n \div 10) \o Digit(n % 10)

NumberText(n) ==
    CASE n.kind = "PosInt" -> IF n.big THEN "9223372036854775808" ELSE NatText(n.x)
      [] n.kind = "NegInt" -> "-" \o NatText(-n.x)
      [] n.kind = "Float" ->
           (IF n.neg THEN "-" ELSE "") \o NatText(n.whole) \o "." \o Digit(n.frac)

RECURSIVE ToString(_)
RECURSIVE JoinItems(_, _)
JoinItems(items, i) ==
    IF i > Len(items) THEN ""
    ELSE (IF i > 1 THEN "," ELSE "") \o ToString(items[i]) \o JoinItems(items, i + 1)

RECURSIVE JoinMembers(_, _, _)
JoinMembers(map, i, first) ==
    IF i > Len(KeyOrder) THEN ""
    ELSE IF KeyOrder[i] \in DOMAIN map
         THEN (IF first THEN "" ELSE ",") \o "\"" \o KeyOrder[i] \o "\":"
              \o ToString(map[KeyOrder[i]]) \o JoinMembers(map, i + 1, FALSE)
         ELSE JoinMembers(map, i + 1, first)

ToString(v) ==
    CASE v.tag = "Null" -> "null"
      [] v.tag = "Bool" -> IF v.b THEN "true" ELSE "false"
      [] v.tag = "Number" -> NumberText(v.n)
      [] v.tag = "String" -> "\"" \o v.s \o "\""
      [] v.tag = "Array" -> "[" \o JoinItems(v.items, 1) \o "]"
      [] v.tag = "Object" -> "{" \o JoinMembers(v.map, 1, TRUE) \o "}"

-----------------------------------------------------------------------------
(* DecodeError and Result.                                                 *)

MissingField(name, text) == [kind |-> "MissingField", a |-> name, b |-> text]
IncorrectType(expected, text) == [kind |-> "IncorrectType", a |-> expected, b |-> text]
InvalidInteger(text) == [kind |-> "InvalidInteger", a |-> text]
IntegerOverflow(text, ty) == [kind |-> "IntegerOverflow", a |-> text, b |-> ty]
Other(msg) == [kind |-> "Other", a |-> msg]

Ok(x) == [ok |-> TRUE, val |-> x]
Err(e) == [ok |-> FALSE, err |-> e]

-----------------------------------------------------------------------------
(* Decoder trees, as the constructor functions build them.                 *)

\* The target types std gives a lossless From<i64> / From<u64> / From<f64>:
\* the only types the bounds of integer, unsigned_integer and float admit.
SignedTypes == {"i8", "i16", "i32", "i64", "i128"}
UnsignedTypes == {"u8", "u16", "u64", "u128"}
FloatTypes == {"f32", "f64"}
ImplFromI64 == {"i64", "i128"}
ImplFromU64 == {"u64", "u128", "i128"}
ImplFromF64 == {"f64"}

\* A constructor call whose trait bound the target type does not satisfy is
\* rejected by the build: there is no decoder and nothing is ever decoded.
Rejected(bound, ty) == [kind |-> "rejected", bound |-> bound, ty |-> ty]

string == [kind |-> "string"]
boolean == [kind |-> "boolean"]
json == [kind |-> "json"]
integer(ty) ==
    IF ty \in ImplFromI64 THEN [kind |-> "integer", ty |-> ty] ELSE Rejected("From<i64>", ty)
unsigned_integer(ty) ==
    IF ty \in ImplFromU64 THEN [kind |-> "unsigned_integer", ty |-> ty]
    ELSE Rejected("From<u64>", ty)
float(ty) ==
    IF ty \in ImplFromF64 THEN [kind |-> "float", ty |-> ty] ELSE Rejected("From<f64>", ty)
field(name, inner) == [kind |-> "field", field_name |-> name, inner_decoder |-> inner]
option(inner) == [kind |-> "option", inner_decoder |-> inner]
list(inner) == [kind |-> "list", inner_decoder |-> inner]
map(func, decoders) == [kind |-> "map", func |-> func, decoders |-> decoders]
and_then(func, inner) == [kind |-> "and_then", func |-> func, inner_decoder |-> inner]
succeed(value) == [kind |-> "succeed", value |-> value]
fail(msg) == [kind |-> "fail", msg |-> msg]

-----------------------------------------------------------------------------
(* Decoded values and the functions handed to map / and_then.              *)

None == [none |-> TRUE]
Some(x) == [some |-> x]

\* The combining functions of map: a constructor keeping its arguments in
\* order, and the projection on the first argument.
Funcs == {"new", "first"}
Apply(f, args) == IF f = "new" THEN [struct |-> args] ELSE args[1]

\* The transforms of and_then, each selecting a decoder from the decoded value
\* (lib.rs test_and_then: "ok" -> succeed(Some(s)), otherwise fail("Go Away")).
Transforms == {"ok_or_go_away", "wrap"}
Transform(f, x) ==
    IF f = "ok_or_go_away"
    THEN IF x = [str |-> "ok"] THEN succeed(Some(x)) ELSE fail("Go Away")
    ELSE succeed([struct |-> <<x>>])

-----------------------------------------------------------------------------
(* Number::as_i64 / as_u64 / as_f64 and the From conversions.              *)

SomeOf(x) == [some |-> TRUE, x |-> x]
Nothing == [some |-> FALSE]

as_i64(n) ==
    CASE n.kind = "PosInt" -> IF n.big THEN Nothing ELSE SomeOf([big |-> FALSE, x |-> n.x])
      [] n.kind = "NegInt" -> SomeOf([big |-> FALSE, x |-> n.x])
      [] n.kind = "Float" -> Nothing

as_u64(n) ==
    CASE n.kind = "PosInt" -> SomeOf([big |-> n.big, x |-> n.x])
      [] n.kind = "NegInt" -> Nothing
      [] n.kind = "Float" -> Nothing

as_f64(n) ==
    CASE n.kind = "PosInt" -> SomeOf([neg |-> FALSE, big |-> n.big, whole |-> n.x, frac |-> 0])
      [] n.kind = "NegInt" -> SomeOf([neg |-> TRUE, big |-> FALSE, whole |-> -n.x, frac |-> 0])
      [] n.kind = "Float" ->
           SomeOf([neg |-> n.neg, big |-> FALSE, whole |-> n.whole, frac |-> n.frac])

\* Into::into under I: From<i64> (From<u64>, From<f64>): lossless, no failure.
Into(ty, x) == [ty |-> ty, num |-> x]

-----------------------------------------------------------------------------
(* Decoder::decode.  Every decode returns Ret(result, log); an event of the *)
(* log names the decoder invoked by its position in the tree (who) and the *)
(* value it was given, or the function invoked and its arguments.          *)

Ret(r, l) == [res |-> r, log |-> l]
Invoked(path, v) == [who |-> path, v |-> v]
Applied(path, f, args) == [who |-> path, f |-> f, args |-> args]

RECURSIVE Decode(_, _, _)

\* Mutant: the mismatch reports the tag of the value, not its text.
StringDecoder_decode_tag(v) ==
    IF v.tag = "String" THEN Ok([str |-> v.s])
    ELSE Err(IncorrectType("String", v.tag))

StringDecoder_decode(v) ==
    IF v.tag = "String" THEN Ok([str |-> v.s])
    ELSE Err(IncorrectType("String", ToString(v)))

\* Mutant: Null is read as false.
BooleanDecoder_decode_nullFalse(v) ==
    IF v.tag = "Bool" THEN Ok([bool |-> v.b])
    ELSE IF v.tag = "Null" THEN Ok([bool |-> FALSE])
    ELSE Err(IncorrectType("Boolean", ToString(v)))

BooleanDecoder_decode(v) ==
    IF v.tag = "Bool" THEN Ok([bool |-> v.b])
    ELSE Err(IncorrectType("Boolean", ToString(v)))

IntDecoder_decode(d, v) ==
    IF v.tag = "Number"
    THEN IF as_i64(v.n).some THEN Ok(Into(d.ty, as_i64(v.n).x))
         ELSE Err(InvalidInteger(ToString(v)))
    ELSE Err(IncorrectType("Number", ToString(v)))

UIntDecoder_decode(d, v) ==
    IF v.tag = "Number"
    THEN IF as_u64(v.n).some THEN Ok(Into(d.ty, as_u64(v.n).x))
         ELSE Err(InvalidInteger(ToString(v)))
    ELSE Err(IncorrectType("Number", ToString(v)))

FloatDecoder_decode(d, v) ==
    IF v.tag = "Number"
    THEN IF as_f64(v.n).some THEN Ok(Into(d.ty, as_f64(v.n).x))
         ELSE Err(InvalidInteger(ToString(v)))
    ELSE Err(IncorrectType("Number", ToString(v)))

JsonDecoder_decode(v) == Ok([json |-> v])

\* Mutant: the inner decoder is given the containing value.
FieldDecoder_decode_whole(d, v, path) ==
    IF v.tag = "Object"
    THEN IF d.field_name \in DOMAIN v.map
         THEN Decode(d.inner_decoder, v, path \o <<1>>)
         ELSE Ret(Err(MissingField(d.field_name, ToString(v))), <<>>)
    ELSE Ret(Err(IncorrectType("Object", ToString(v))), <<>>)

\* Mutant: an absent key is decoded as if it held Null.
FieldDecoder_decode_lenient(d, v, path) ==
    IF v.tag = "Object"
    THEN Decode(d.inner_decoder,
                IF d.field_name \in DOMAIN v.map THEN v.map[d.field_name] ELSE Null,
                path \o <<1>>)
    ELSE Ret(Err(IncorrectType("Object", ToString(v))), <<>>)

FieldDecoder_decode(d, v, path) ==
    IF v.tag = "Object"
    THEN IF d.field_name \in DOMAIN v.map
         THEN Decode(d.inner_decoder, v.map[d.field_name], path \o <<1>>)
         ELSE Ret(Err(MissingField(d.field_name, ToString(v))), <<>>)
    ELSE Ret(Err(IncorrectType("Object", ToString(v))), <<>>)

\* Mutant: an inner failure is swallowed as absence.
OptionDecoder_decode_swallow(d, v, path) ==
    IF v.tag = "Null" THEN Ret(Ok(None), <<>>)
    ELSE LET r == Decode(d.inner_decoder, v, path \o <<1>>)
         IN  Ret(IF r.res.ok THEN Ok(Some(r.res.val)) ELSE Ok(None), r.log)

OptionDecoder_decode(d, v, path) ==
    IF v.tag = "Null" THEN Ret(Ok(None), <<>>)
    ELSE LET r == Decode(d.inner_decoder, v, path \o <<1>>)
         IN  Ret(IF r.res.ok THEN Ok(Some(r.res.val)) ELSE r.res, r.log)

\* vec.iter().map(|item| inner.decode(item)).collect::<Result<_, _>>(): the
\* items are decoded lazily, in order, and the first Err ends the iteration.
RECURSIVE Collect(_, _, _, _, _)
\* Mutant: every item is decoded and the last failure is reported.
Collect_lastError(d, items, i, acc, path) ==
    IF i > Len(items) THEN Ret(Ok([seq |-> acc]), <<>>)
    ELSE LET r == Decode(d.inner_decoder, items[i], path \o <<1>>)
             rest == Collect(d, items, i + 1,
                             IF r.res.ok THEN Append(acc, r.res.val) ELSE acc, path)
         IN  Ret(IF r.res.ok \/ ~rest.res.ok THEN rest.res ELSE r.res, r.log \o rest.log)

Collect(d, items, i, acc, path) ==
    IF i > Len(items) THEN Ret(Ok([seq |-> acc]), <<>>)
    ELSE LET r == Decode(d.inner_decoder, items[i], path \o <<1>>)
         IN  IF r.res.ok
             THEN LET rest == Collect(d, items, i + 1, Append(acc, r.res.val), path)
                  IN  Ret(rest.res, r.log \o rest.log)
             ELSE Ret(r.res, r.log)

ListDecoder_decode(d, v, path) ==
    IF v.tag = "Array" THEN Collect(d, v.items, 1, <<>>, path)
    ELSE Ret(Err(IncorrectType("Array", ToString(v))), <<>>)

\* DecoderFn1::decode and define_map_decoder!: let _i = (*_i).decode(value)?
\* for each sub-decoder in turn, then (*self.func)(_1, ..., _N).
RECURSIVE MapArgs(_, _, _, _, _)
\* Mutant: every sub-decoder is run before the first failure is reported.
MapArgs_eager(d, v, i, args, path) ==
    IF i > Len(d.decoders)
    THEN Ret(Ok(Apply(d.func, args)), <<Applied(path, d.func, args)>>)
    ELSE LET r == Decode(d.decoders[i], v, path \o <<i>>)
             rest == MapArgs(d, v, i + 1,
                             Append(args, IF r.res.ok THEN r.res.val ELSE None), path)
         IN  Ret(IF r.res.ok THEN rest.res ELSE r.res, r.log \o rest.log)

MapArgs(d, v, i, args, path) ==
    IF i > Len(d.decoders)
    THEN Ret(Ok(Apply(d.func, args)), <<Applied(path, d.func, args)>>)
    ELSE LET r == Decode(d.decoders[i], v, path \o <<i>>)
         IN  IF r.res.ok
             THEN LET rest == MapArgs(d, v, i + 1, Append(args, r.res.val), path)
                  IN  Ret(rest.res, r.log \o rest.log)
             ELSE Ret(r.res, r.log)

MapDecoder_decode(d, v, path) == MapArgs(d, v, 1, <<>>, path)

SucceedDecoder_decode(d, v) == Ok(d.value)

FailDecoder_decode(d, v) == Err(Other(d.msg))

AndThenDecoder_decode(d, v, path) ==
    LET r == Decode(d.inner_decoder, v, path \o <<1>>)
    IN  IF r.res.ok
        THEN LET next == Decode(Transform(d.func, r.res.val), v, path \o <<2>>)
             IN  Ret(next.res,
                     r.log \o <<Applied(path, d.func, <<r.res.val>>)>> \o next.log)
        ELSE Ret(r.res, r.log)

Decode(d, v, path) ==
    LET r == CASE d.kind = "string" -> Ret(StringDecoder_decode(v), <<>>)
               [] d.kind = "boolean" -> Ret(BooleanDecoder_decode(v), <<>>)
               [] d.kind = "integer" -> Ret(IntDecoder_decode(d, v), <<>>)
               [] d.kind = "unsigned_integer" -> Ret(UIntDecoder_decode(d, v), <<>>)
               [] d.kind = "float" -> Ret(FloatDecoder_decode(d, v), <<>>)
               [] d.kind = "json" -> Ret(JsonDecoder_decode(v), <<>>)
               [] d.kind = "field" -> FieldDecoder_decode(d, v, path)
               [] d.kind = "option" -> OptionDecoder_decode(d, v, path)
               [] d.kind = "list" -> ListDecoder_decode(d, v, path)
               [] d.kind = "map" -> MapDecoder_decode(d, v, path)
               [] d.kind = "succeed" -> Ret(SucceedDecoder_decode(d, v), <<>>)
               [] d.kind = "fail" -> Ret(FailDecoder_decode(d, v), <<>>)
               [] d.kind = "and_then" -> AndThenDecoder_decode(d, v, path)
    IN  Ret(r.res, <<Invoked(path, v)>> \o r.log)

\* The outcome of one call on the root decoder.
Run(d, v) == Decode(d, v, <<>>)

-----------------------------------------------------------------------------
(* The decoders and inputs the calls are drawn from.                       *)

FieldNames == {"a", "b", "c"}
Prims == {string, boolean, integer("i64"), json}
InnerDecoders ==
    Prims \cup {option(p) : p \in Prims} \cup {list(p) : p \in Prims}
          \cup {field(n, p) : n \in FieldNames, p \in Prims}
          \cup {list(option(string)), option(list(string))}
SubDecoders == {field("a", string), field("b", integer("i64")), option(string)}
DecoderTuples == UNION {[1..n -> SubDecoders] : n \in 1..MaxArity}
AndThenInner == {string, boolean, field("a", string)}
SucceedValues == {[str |-> "ok"], None, [bool |-> TRUE]}
Messages == {"Go Away", "no"}

NoResult == [none |-> TRUE]

\* One call decoder.decode(&value) on a freshly built decoder, made by a caller
\* that holds no result; a decoder the build rejects is never called.
Call(o, d, v) ==
    /\ op' = o
    /\ dec' = d
    /\ val' = v
    /\ out' = IF d.kind = "rejected" THEN NoResult ELSE Run(d, v).res
    /\ log' = IF d.kind = "rejected" THEN <<>> ELSE Run(d, v).log
    /\ UNCHANGED threadVars

DecodeString ==
    /\ op = "idle"
    /\ \E v \in PrimValues : Call("string", string, v)

DecodeBoolean ==
    /\ op = "idle"
    /\ \E v \in PrimValues : Call("boolean", boolean, v)

DecodeJson ==
    /\ op = "idle"
    /\ \E v \in PrimValues : Call("json", json, v)

DecodeInteger ==
    /\ op = "idle"
    /\ \E ty \in SignedTypes, v \in PrimValues : Call("integer", integer(ty), v)

DecodeUnsigned ==
    /\ op = "idle"
    /\ \E ty \in UnsignedTypes, v \in PrimValues :
           Call("unsigned_integer", unsigned_integer(ty), v)

DecodeFloat ==
    /\ op = "idle"
    /\ \E ty \in FloatTypes, v \in PrimValues : Call("float", float(ty), v)

DecodeField ==
    /\ op = "idle"
    /\ \E n \in FieldNames, d \in InnerDecoders, v \in Values : Call("field", field(n, d), v)

DecodeOption ==
    /\ op = "idle"
    /\ \E d \in InnerDecoders, v \in Values : Call("option", option(d), v)

DecodeList ==
    /\ op = "idle"
    /\ \E d \in InnerDecoders, v \in Values : Call("list", list(d), v)

DecodeMap ==
    /\ op = "idle"
    /\ \E f \in Funcs, ds \in DecoderTuples, v \in MapValues : Call("map", map(f, ds), v)

DecodeAndThen ==
    /\ op = "idle"
    /\ \E f \in Transforms, d \in AndThenInner, v \in Values :
           Call("and_then", and_then(f, d), v)

DecodeSucceed ==
    /\ op = "idle"
    /\ \E x \in SucceedValues, v \in Values : Call("succeed", succeed(x), v)

DecodeFail ==
    /\ op = "idle"
    /\ \E m \in Messages, v \in Values : Call("fail", fail(m), v)

\* The caller consumes the result; decoder and result are dropped.
Drop ==
    /\ op # "idle"
    /\ op' = "idle"
    /\ dec' = json
    /\ val' = Null
    /\ out' = NoResult
    /\ log' = <<>>
    /\ UNCHANGED threadVars

-----------------------------------------------------------------------------
(* Several threads calling decode on one shared decoder.  The decoder and  *)
(* the inputs are borrowed (&self, &Value); what a call builds (the        *)
(* collection a list decoder collects into) lives in the call's own frame. *)

Threads == 1..NThreads
ThreadTrees == {list(string), list(option(string)), option(list(string)), string}
Pool == <<Arr(<<Str("hello"), Str("ok")>>), Arr(<<Str("ok"), PosInt(5), Str("hello")>>),
          Arr(<<Str("hello"), Null>>), Str("ok")>>

\* Mutant: one buffer kept in the decoder, used by every call.
AccOf_shared(t) == 1

\* The collection thread t's running call collects into: the call's own.
AccOf(t) == t

ThreadCall(t) ==
    /\ tpc[t] = "idle"
    /\ \E i \in DOMAIN heap : targ' = [targ EXCEPT ![t] = i]
    /\ tpc' = [tpc EXCEPT ![t] = "running"]
    /\ tidx' = [tidx EXCEPT ![t] = 0]
    /\ accs' = [accs EXCEPT ![AccOf(t)] = <<>>]
    /\ UNCHANGED <<tree, heap, tout, callVars>>

\* One step of the running call: a list decoder on an Array decodes its next
\* item (or finishes); every other call completes in one step.
ThreadStep(t) ==
    /\ tpc[t] = "running"
    /\ LET v == heap[targ[t]] IN
       IF tree.kind = "list" /\ v.tag = "Array"
       THEN IF tidx[t] = Len(v.items)
            THEN /\ tout' = [tout EXCEPT ![t] = Ok([seq |-> accs[AccOf(t)]])]
                 /\ tpc' = [tpc EXCEPT ![t] = "done"]
                 /\ UNCHANGED <<tidx, accs>>
            ELSE LET r == Run(tree.inner_decoder, v.items[tidx[t] + 1]).res IN
                 IF r.ok
                 THEN /\ accs' = [accs EXCEPT ![AccOf(t)] = Append(@, r.val)]
                      /\ tidx' = [tidx EXCEPT ![t] = @ + 1]
                      /\ UNCHANGED <<tout, tpc>>
                 ELSE /\ tout' = [tout EXCEPT ![t] = r]
                      /\ tpc' = [tpc EXCEPT ![t] = "done"]
                      /\ UNCHANGED <<tidx, accs>>
       ELSE /\ tout' = [tout EXCEPT ![t] = Run(tree, v).res]
            /\ tpc' = [tpc EXCEPT ![t] = "done"]
            /\ UNCHANGED <<tidx, accs>>
    /\ UNCHANGED <<tree, heap, targ, callVars>>

\* The caller takes the result; the thread may call again.
ThreadReturn(t) ==
    /\ tpc[t] = "done"
    /\ tpc' = [tpc EXCEPT ![t] = "idle"]
    /\ tout' = [tout EXCEPT ![t] = NoResult]
    /\ UNCHANGED <<tree, heap, targ, tidx, accs, callVars>>

-----------------------------------------------------------------------------
(* Specifications.                                                         *)

CallIdle ==
    /\ op = "idle"
    /\ dec = json
    /\ val = Null
    /\ out = NoResult
    /\ log = <<>>

ThreadsIdle ==
    /\ heap = Pool
    /\ tpc = [t \in Threads |-> "idle"]
    /\ targ = [t \in Threads |-> 1]
    /\ tidx = [t \in Threads |-> 0]
    /\ tout = [t \in Threads |-> NoResult]
    /\ accs = [t \in Threads |-> <<>>]

Init == CallIdle /\ ThreadsIdle /\ tree = string

Next ==
    \/ DecodeString
    \/ DecodeBoolean
    \/ DecodeJson
    \/ DecodeInteger
    \/ DecodeUnsigned
    \/ DecodeFloat
    \/ DecodeField
    \/ DecodeOption
    \/ DecodeList
    \/ DecodeMap
    \/ DecodeAndThen
    \/ DecodeSucceed
    \/ DecodeFail
    \/ Drop

Spec == Init /\ [][Next]_vars

ThreadsInit == CallIdle /\ ThreadsIdle /\ tree \in ThreadTrees

ThreadsNext == \E t \in Threads : ThreadCall(t) \/ ThreadStep(t) \/ ThreadReturn(t)

ThreadsSpec == ThreadsInit /\ [][ThreadsNext]_vars

-----------------------------------------------------------------------------
(* Helpers of the properties.                                              *)

MinOf(S) == CHOOSE i \in S : \A j \in S : i <= j

\* The representable range of a fixed-width type, on values below 2^31 or
\* equal to 2^63 (big).
InRange(ty, iv) ==
    CASE ty = "i8" -> ~iv.big /\ -128 <= iv.x /\ iv.x <= 127
      [] ty = "i16" -> ~iv.big /\ -32768 <= iv.x /\ iv.x <= 32767
      [] ty = "i32" -> ~iv.big
      [] ty = "i64" -> ~iv.big
      [] ty = "i128" -> TRUE
      [] ty = "u8" -> ~iv.big /\ 0 <= iv.x /\ iv.x <= 255
      [] ty = "u16" -> ~iv.big /\ 0 <= iv.x /\ iv.x <= 65535
      [] ty = "u64" -> 0 <= iv.x
      [] ty = "u128" -> 0 <= iv.x

RECURSIVE ConcatLogs(_, _)
ConcatLogs(runs, n) == IF n = 0 THEN <<>> ELSE ConcatLogs(runs, n - 1) \o runs[n].log

\* The events of the log that invoke the decoder at position path, in order.
RECURSIVE InvocationsOf(_, _)
InvocationsOf(l, path) ==
    IF l = <<>> THEN <<>>
    ELSE (IF "v" \in DOMAIN Head(l) /\ Head(l).who = path THEN <<Head(l).v>> ELSE <<>>)
         \o InvocationsOf(Tail(l), path)

\* The function applications the decoder at position path made, in order.
RECURSIVE ApplicationsOf(_, _)
ApplicationsOf(l, path) ==
    IF l = <<>> THEN <<>>
    ELSE (IF "f" \in DOMAIN Head(l) /\ Head(l).who = path THEN <<Head(l).args>> ELSE <<>>)
         \o ApplicationsOf(Tail(l), path)

MapSome(r) == IF r.ok THEN Ok(Some(r.val)) ELSE r

-----------------------------------------------------------------------------
(* C1: integer<I>().decode(n), for a Number n with an exact i64 reading,   *)
(* returns Ok(n) iff n lies within I's range and otherwise                 *)
(* Err(IntegerOverflow(text of n, type name of I)); for i8, 127 succeeds,  *)
(* 128 fails and 512 fails with IntegerOverflow("512", "i8").              *)
C1_IntegerNarrowing ==
    (op = "integer" /\ val.tag = "Number" /\ as_i64(val.n).some) =>
        out = IF InRange(dec.ty, as_i64(val.n).x)
              THEN Ok(Into(dec.ty, as_i64(val.n).x))
              ELSE Err(IntegerOverflow(ToString(val), dec.ty))

(* C2: unsigned_integer<I>().decode on a Number: every negative number     *)
(* fails with InvalidInteger; a non-negative integer n gives Ok(n) iff n   *)
(* fits in I and otherwise Err(IntegerOverflow(text of n, type name of I)).*)
C2_UnsignedNarrowing ==
    (op = "unsigned_integer" /\ val.tag = "Number") =>
        /\ val.n.kind = "NegInt" => out = Err(InvalidInteger(ToString(val)))
        /\ val.n.kind = "PosInt" =>
             out = IF InRange(dec.ty, as_u64(val.n).x)
                   THEN Ok(Into(dec.ty, as_u64(val.n).x))
                   ELSE Err(IntegerOverflow(ToString(val), dec.ty))

(* C3: mapN(func, d1..dN).decode(v) runs d1, d2, ... on the same v in      *)
(* order; if di is the first to fail the result is di's error, no dj with  *)
(* j > i is invoked and func is not invoked; if all succeed, func is       *)
(* invoked exactly once with the decoded values in declared order and the  *)
(* result is Ok of its return value.                                       *)
C3_MapLeftToRight ==
    op = "map" =>
        LET ds == dec.decoders
            n == Len(ds)
            runs == [i \in 1..n |-> Decode(ds[i], val, <<i>>)]
            failing == {i \in 1..n : ~runs[i].res.ok}
            args == [i \in 1..n |-> runs[i].res.val]
        IN  IF failing = {}
            THEN /\ out = Ok(Apply(dec.func, args))
                 /\ ApplicationsOf(log, <<>>) = <<args>>
                 /\ \A i \in 1..n : InvocationsOf(log, <<i>>) = <<val>>
                 /\ log = <<Invoked(<<>>, val)>> \o ConcatLogs(runs, n)
                            \o <<Applied(<<>>, dec.func, args)>>
            ELSE LET k == MinOf(failing)
                 IN  /\ out = runs[k].res
                     /\ ApplicationsOf(log, <<>>) = <<>>
                     /\ \A i \in 1..k : InvocationsOf(log, <<i>>) = <<val>>
                     /\ \A j \in (k + 1)..n : InvocationsOf(log, <<j>>) = <<>>
                     /\ log = <<Invoked(<<>>, val)>> \o ConcatLogs(runs, k)

C3_Witness ==
    /\ op = "map"
    /\ Len(dec.decoders) >= 3
    /\ Decode(dec.decoders[1], val, <<1>>).res.ok
    /\ ~Decode(dec.decoders[2], val, <<2>>).res.ok
    /\ ~Decode(dec.decoders[3], val, <<3>>).res.ok
    /\ out = Err(MissingField("b", ToString(val)))

(* C4: and_then(f, d).decode(v) decodes v with d; d's error is returned    *)
(* unchanged without invoking f; on success with x, f is invoked with x    *)
(* and succeed(y) gives Ok(y), fail(msg) gives Err(Other(msg)), whatever v *)
(* is.  With d = string() and f sending "ok" to succeed and anything else  *)
(* to fail("Go Away"): "ok" succeeds, "fail" gives Err(Other("Go Away")),  *)
(* a non-string gives string()'s IncorrectType error.                      *)
C4_AndThen ==
    /\ op = "and_then" =>
         LET r == Run(dec.inner_decoder, val).res
         IN  IF ~r.ok
             THEN out = r /\ ApplicationsOf(log, <<>>) = <<>>
             ELSE LET sel == Transform(dec.func, r.val)
                  IN  /\ ApplicationsOf(log, <<>>) = <<(<<r.val>>)>>
                      /\ sel.kind = "succeed" => out = Ok(sel.value)
                      /\ sel.kind = "fail" => out = Err(Other(sel.msg))
    /\ (op = "and_then" /\ dec = and_then("ok_or_go_away", string)) =>
         /\ val = Str("ok") => out = Ok(Some([str |-> "ok"]))
         /\ val = Str("fail") => out = Err(Other("Go Away"))
         /\ val.tag # "String" => out = Err(IncorrectType("String", ToString(val)))
    /\ op = "succeed" => out = Ok(dec.value)
    /\ op = "fail" => out = Err(Other(dec.msg))

C4_Witness ==
    /\ op = "and_then"
    /\ dec = and_then("ok_or_go_away", string)
    /\ val = Str("fail")
    /\ out = Err(Other("Go Away"))

(* C5: field(name, inner).decode(v) is Err(IncorrectType("Object", text of *)
(* v)) when v is not an Object and Err(MissingField(name, text of v)) when *)
(* v is an Object without the key name, inner not being invoked in either  *)
(* case; otherwise it is exactly inner.decode(v[name]).                    *)
C5_Field ==
    op = "field" =>
        IF val.tag # "Object"
        THEN /\ out = Err(IncorrectType("Object", ToString(val)))
             /\ InvocationsOf(log, <<1>>) = <<>>
        ELSE IF dec.field_name \notin DOMAIN val.map
             THEN /\ out = Err(MissingField(dec.field_name, ToString(val)))
                  /\ InvocationsOf(log, <<1>>) = <<>>
             ELSE /\ out = Run(dec.inner_decoder, val.map[dec.field_name]).res
                  /\ InvocationsOf(log, <<1>>) = <<val.map[dec.field_name]>>

C5_Witness ==
    /\ op = "field"
    /\ val.tag = "Object"
    /\ dec.field_name \in DOMAIN val.map
    /\ dec.inner_decoder = string
    /\ out = Err(IncorrectType("String", "5"))

(* C6: list(inner).decode(v) is Err(IncorrectType("Array", text of v))     *)
(* when v is not an Array; when all elements decode it is the decoded      *)
(* elements, same order and length; otherwise it is inner's error on the   *)
(* lowest failing index, no later element is decoded, and the result is    *)
(* the same for every array that agrees up to that index.                  *)
C6_List ==
    op = "list" =>
        IF val.tag # "Array"
        THEN /\ out = Err(IncorrectType("Array", ToString(val)))
             /\ InvocationsOf(log, <<1>>) = <<>>
        ELSE LET items == val.items
                 rs == [i \in 1..Len(items) |-> Run(dec.inner_decoder, items[i]).res]
                 failing == {i \in 1..Len(items) : ~rs[i].ok}
             IN  IF failing = {}
                 THEN /\ out = Ok([seq |-> [i \in 1..Len(items) |-> rs[i].val]])
                      /\ Len(out.val.seq) = Len(items)
                      /\ InvocationsOf(log, <<1>>) = items
                 ELSE LET k == MinOf(failing)
                      IN  /\ out = rs[k]
                          /\ InvocationsOf(log, <<1>>) = SubSeq(items, 1, k)
                          /\ \A w \in Arrays :
                               (Len(w.items) >= k /\ SubSeq(w.items, 1, k) = SubSeq(items, 1, k))
                                   => Run(dec, w).res = out

C6_Witness ==
    /\ op = "list"
    /\ dec = list(string)
    /\ val = Arr(<<PosInt(5), Null>>)
    /\ out = Err(IncorrectType("String", "5"))

(* C7: option(D).decode(Null) is Ok(None) without invoking D; for non-null *)
(* v it is D.decode(v).map(Some), an inner failure propagating unchanged.  *)
(* option(list(option(string()))) decodes ["hello", null] to               *)
(* Ok(Some([Some("hello"), None])) and Null to Ok(None).                   *)
C7_Option ==
    /\ op = "option" =>
         IF val = Null
         THEN out = Ok(None) /\ InvocationsOf(log, <<1>>) = <<>>
         ELSE out = MapSome(Run(dec.inner_decoder, val).res)
    /\ (op = "option" /\ dec = option(list(option(string)))) =>
         /\ val = Arr(<<Str("hello"), Null>>) =>
              out = Ok(Some([seq |-> <<Some([str |-> "hello"]), None>>]))
         /\ val = Null => out = Ok(None)

C7_Witness ==
    /\ op = "option"
    /\ dec = option(list(option(string)))
    /\ val = Arr(<<Str("hello"), Null>>)
    /\ out = Ok(Some([seq |-> <<Some([str |-> "hello"]), None>>]))

(* C8: one decoder instance may be invoked by several threads at once, in  *)
(* any interleaving and any number of times: a call leaves the decoder     *)
(* tree and the input values unchanged, and returns what a sequential call *)
(* on an equal input returns (equal inputs give equal outputs).            *)
C8_Results ==
    \A t \in Threads :
        tpc[t] = "done" =>
            /\ tout[t] = Run(tree, heap[targ[t]]).res
            /\ \A u \in Threads :
                 (tpc[u] = "done" /\ heap[targ[u]] = heap[targ[t]]) => tout[u] = tout[t]

C9_PrimitiveTags ==
    /\ op = "string" =>
         IF val.tag = "String" THEN out = Ok([str |-> val.s])
         ELSE out = Err(IncorrectType("String", ToString(val)))
    /\ op = "boolean" =>
         IF val.tag = "Bool" THEN out = Ok([bool |-> val.b])
         ELSE out = Err(IncorrectType("Boolean", ToString(val)))
    /\ (op \in {"integer", "unsigned_integer", "float"} /\ dec.kind # "rejected"
          /\ val.tag # "Number") =>
         out = Err(IncorrectType("Number", ToString(val)))

C9_Witness ==
    /\ op = "boolean"
    /\ val = Str("ok")
    /\ out = Err(IncorrectType("Boolean", "\"ok\""))

(* C10: option inside field does not make the key optional:                *)
(* field(name, option(D)) on an Object fails with MissingField(name, text) *)
(* when the key is absent, is Ok(None) when the key holds Null and         *)
(* D.decode(v[name]).map(Some) otherwise; option(field(name, D)) is        *)
(* Ok(None) only when v itself is Null and still fails with MissingField   *)
(* on an Object lacking the key.                                           *)
C10_OptionalField ==
    /\ (op = "field" /\ dec.inner_decoder.kind = "option" /\ val.tag = "Object") =>
         IF dec.field_name \notin DOMAIN val.map
         THEN out = Err(MissingField(dec.field_name, ToString(val)))
         ELSE IF val.map[dec.field_name] = Null
              THEN out = Ok(None)
              ELSE out = MapSome(Run(dec.inner_decoder.inner_decoder,
                                     val.map[dec.field_name]).res)
    /\ (op = "option" /\ dec.inner_decoder.kind = "field") =>
         /\ out = Ok(None) <=> val = Null
         /\ (val.tag = "Object" /\ dec.inner_decoder.field_name \notin DOMAIN val.map) =>
              out = Err(MissingField(dec.inner_decoder.field_name, ToString(val)))

C10_Witness ==
    /\ op = "field"
    /\ dec = field("b", option(string))
    /\ val.tag = "Object"
    /\ DOMAIN val.map = {"a"}
    /\ out = Err(MissingField("b", ToString(val)))

====
